---- MODULE Spec2Model ----
(***************************************************************************)
(* Verification model of the sandbox execution engine                      *)
(* (backend/app/utils/e2b/executor.py).                                    *)
(*                                                                         *)
(* Twelve specifications share the definitions below:                      *)
(*   Spec        one call of execute_e2b_test from sandbox creation to the *)
(*               end of its finally clause, with the waiter thread;        *)
(*   SpecLive    Spec with the scheduling of the calling thread;           *)
(*   SpecRunLog  the same call with a runner that writes to the log file;  *)
(*   SpecLog     the log tailer (_read_log_updates, _capture_stream,       *)
(*               _emit) against a runner appending to the log file;        *)
(*   SpecRpc     the host-sandbox RPC bridge (_service_host_requests       *)
(*               against the generated call_host client);                  *)
(*   SpecStarve  the supervisor loop with the bridge pass and its clock;   *)
(*   SpecSink    the two threads of one call inside the log sink;          *)
(*   SpecCall    one call_host invocation with the sandbox's clock;        *)
(*   SpecCollect the file collection and persistence at the end of a run   *)
(*               (_collect_file_info, _finalize_persistence);              *)
(*   SpecTwoRuns two calls of execute_e2b_test running side by side;       *)
(*   SpecStream  the streaming endpoint of main.py (run_e2b_test_stream    *)
(*               with its worker and _execute_run);                        *)
(*   SpecStreamLate  SpecStream with the waiter thread of the executor,    *)
(*               which can outlive the call.                               *)
(*                                                                         *)
(* Text is modelled over a two-character alphabet: "x" and the newline.    *)
(* A line is the sequence of its characters.                               *)
(***************************************************************************)
EXTENDS Integers, Sequences, FiniteSets, TLC

\* ------------------------------------------------------------------ bounds
\* Most characters the sandbox process appends to the log file.
MaxLogChars == 3
\* Most stdout/stderr chunks a command delivers to _capture_stream.
MaxChunks == 1
\* Number of correlation ids (call_host invocations) of a run.
MaxReqs == 2
\* Most files.remove calls that fail during a run.
MaxDeleteFails == 1
\* SpecTwoRuns: most lines the runner of one call writes to its log file.
MaxRunLines == 2
\* SpecStream: most batches the log sink is called with during a run.
MaxLogEvents == 2
\* SpecCall: the latest reading of the sandbox's clock, in units of 0.05 s;
\* the clock stays there, standing for every later time.
MaxClock == 7

NL == "\n"
Chars == {"x", NL}
None == "None"

VARIABLES
    \* ---- the sandbox's log file and the host-side tailer
    logFile,        \* content of E2B_LOG_FILE: a sequence of characters
    log_lines,      \* execute_e2b_test's log_lines list
    stdout_lines,   \* execute_e2b_test's stdout_lines list
    sink,           \* every batch log_sink was called with, in call order
    synced,         \* SpecLog: a tail read succeeded since the last append
    chunks          \* number of stdout chunks delivered so far

logVars == <<logFile, log_lines, stdout_lines, sink, synced, chunks>>

VARIABLES
    \* ---- the RPC bridge: files in the sandbox, the callers, the host's pass
    reqFile,        \* per correlation id: the file in E2B_REQUEST_DIR
    respFile,       \* per correlation id: the file in E2B_RESPONSE_DIR
    caller,         \* per correlation id: where its call_host invocation is
    svc,            \* the host's _service_host_requests invocation
    handler_calls,  \* per correlation id: times a registered handler was invoked
    resp_writes,    \* per correlation id: times a response file was written
    delete_fails    \* failed files.remove calls so far

rpcVars == <<reqFile, respFile, caller, svc, handler_calls, resp_writes,
             delete_fails>>

VARIABLES
    \* ---- one call of execute_e2b_test
    pc,             \* the statement the calling thread is at
    exc,            \* the exception propagating to the caller, or None
    outcome,        \* "pending" | "returned" | "raised"
    result,         \* <<the E2BTestResponse built: [ok, error, logs]>>, or <<>>
    sandbox,        \* "none" | "alive" | "killed"
    kill_calls,     \* times sandbox.kill() was called
    run_dir,        \* the local run directory was created
    persist,        \* input: run_id and persist_root are both given
    pip,            \* input: payload.pip_packages: "none" | "blank" | "pkgs"
    has_close,      \* input: hasattr(sandbox, "close")
    col,            \* the _collect_file_info / _finalize_persistence pass
    runs,           \* SpecTwoRuns: the locals of two concurrent calls
    stream,         \* SpecStream: the worker and queue of run_e2b_test_stream
    sdk,            \* SpecCall: one call_host invocation and its clock
    in_sink,        \* SpecSink: per thread, it is inside a call of log_sink
    proc,           \* the runner command: "off" | "running" | "exit0" | "exit1" | "killed"
    wpc,            \* the statement the waiter thread is at
    exit_error,     \* the shared exit_error variable
    exit_code,      \* the shared exit_code variable: None | "0" | "1" (non-zero)
    wait_complete,  \* the wait_complete event
    expired,        \* time.time() - start_time > timeout_seconds
    hist            \* what happened so far (see InitRun)

ctlVars == <<pc, exc>>
endVars == <<outcome, result>>
sbxVars == <<sandbox, kill_calls, run_dir>>
cfgVars == <<persist, pip, has_close, col, runs, stream, sdk, in_sink>>
cmdVars == <<proc, wpc, exit_error, exit_code, wait_complete, expired>>
runVars == <<ctlVars, endVars, sbxVars, cfgVars, cmdVars, hist>>
vars == <<logVars, rpcVars, runVars>>

\* ------------------------------------------------------------- text helpers
\* Index of the first newline of s, 0 when it has none.
FirstNL(s) ==
    IF \E i \in 1..Len(s) : s[i] = NL
    THEN CHOOSE i \in 1..Len(s) : s[i] = NL /\ \A j \in 1..(i-1) : s[j] # NL
    ELSE 0

\* Python's str.splitlines on the model alphabet: the text between newlines,
\* and the text after the last newline when there is any (no newline needed).
RECURSIVE splitlines(_)
splitlines(s) ==
    IF s = <<>> THEN <<>>
    ELSE LET i == FirstNL(s) IN
         IF i = 0 THEN <<s>>
         ELSE <<SubSeq(s, 1, i - 1)>> \o splitlines(SubSeq(s, i + 1, Len(s)))

\* [line for line in decoded if line]
NonEmpty(lines) == SelectSeq(lines, LAMBDA l : l # <<>>)

\* The concatenation of a sequence of batches.
RECURSIVE Flatten(_)
Flatten(batches) ==
    IF batches = <<>> THEN <<>>
    ELSE Head(batches) \o Flatten(Tail(batches))

\* ------------------------------------------------------------------- _emit
\* _emit without its test of lines.
EmitUnguarded(lines) == Append(sink, lines)

\* _emit(lines): log_sink is called only with a non-empty list.
Emit(lines) == IF lines # <<>> THEN Append(sink, lines) ELSE sink

\* ------------------------------------------------------- _read_log_updates
\* decoded = data.decode(...).splitlines(); filtered = [l for l in decoded if l]
filtered(data) == NonEmpty(splitlines(data))

\* _read_log_updates emitting every line of the file, not the new ones only.
ReadLogUpdatesEmitsAll(readOk) ==
    IF ~readOk
    THEN UNCHANGED <<log_lines, sink>>
    ELSE LET f == filtered(logFile) IN
         IF Len(f) > Len(log_lines)
         THEN /\ log_lines' = f
              /\ sink' = Emit(f)
         ELSE UNCHANGED <<log_lines, sink>>

\* One call of _read_log_updates; readOk = FALSE is _sandbox_read_bytes raising.
read_log_updates(readOk) ==
    IF ~readOk
    THEN UNCHANGED <<log_lines, sink>>
    ELSE LET f == filtered(logFile) IN
         IF Len(f) > Len(log_lines)
         THEN /\ log_lines' = f
              /\ sink' = Emit(SubSeq(f, Len(log_lines) + 1, Len(f)))
         ELSE UNCHANGED <<log_lines, sink>>

\* --------------------------------------------------------- _capture_stream
\* The chunks a command's stdout/stderr callback can be called with.
Chunk == {<<>>, <<"x">>, <<NL>>, <<"x", NL>>}

capture_stream(chunk) ==
    IF chunk = <<>>
    THEN UNCHANGED <<stdout_lines, sink>>
    ELSE LET lines == NonEmpty(splitlines(chunk)) IN
         /\ stdout_lines' = stdout_lines \o lines
         /\ sink' = Emit(lines)

\* ------------------------------------------------- the sandbox-side logger
\* _log / sdk log(): the message and its newline reach the file character by
\* character; a reader between two of them sees the line unterminated.
ProcAppend(c) ==
    /\ Len(logFile) < MaxLogChars
    /\ logFile' = Append(logFile, c)
    /\ synced' = FALSE

\* ================================================================== bridge
ReqIds == 1..MaxReqs

\* host_actions: the handlers execute_e2b_test registers.
host_actions == {"ping", "enrich_customer"}

\* A file of the request directory: absent, empty (opened for writing and not
\* yet written), or holding a request <<action name, kind of payload>>.
NoFile == <<>>
EmptyFile == <<"">>
Call == { <<"ping", "dict">>, <<"enrich_customer", "dict">>,
          <<"enrich_customer", "str">>, <<"nope", "dict">> }
ActionOf(call) == call[1]
PayloadOf(call) == call[2]

\* The registered lambdas: "ping" wraps any payload; "enrich_customer" calls
\* data.get(...), which raises on a payload that is not a mapping.
HandlerRaises(call) ==
    ActionOf(call) = "enrich_customer" /\ PayloadOf(call) # "dict"

\* Lines 349-358: the result the host computes for a parsed request.
HandlerResult(call) ==
    IF ActionOf(call) \notin host_actions THEN "unsupported"
    ELSE IF HandlerRaises(call) THEN "handler_error"
    ELSE "ok"

\* The state of a _service_host_requests call that has not listed yet.
SvcStart ==
    [pc |-> "list", entries |-> {}, cur |-> 0, raw |-> NoFile, result |-> None]

\* _service_host_requests returns: the loop goes on to _read_log_updates.
SvcReturn == svc' = SvcStart /\ pc' = "log" /\ UNCHANGED exc
\* An exception leaves _service_host_requests, and the try block with it.
SvcRaise(cause) == svc' = SvcStart /\ pc' = "finally" /\ exc' = cause

\* The for loop's next iteration: another listed entry, or the function returns.
SvcAdvance(entries) ==
    IF entries = {}
    THEN SvcReturn
    ELSE /\ \E id \in entries :
               svc' = [pc |-> "read", entries |-> entries \ {id}, cur |-> id,
                       raw |-> NoFile, result |-> None]
         /\ UNCHANGED ctlVars

\* What a bridge step leaves alone besides the bridge's own variables.
SvcFrame == UNCHANGED <<logVars, endVars, sbxVars, cfgVars, cmdVars>>

\* entries = sandbox.files.list(E2B_REQUEST_DIR); a failing listing returns.
SvcList ==
    /\ pc = "svc" /\ svc.pc = "list"
    /\ \E listOk \in BOOLEAN :
          IF listOk
          THEN SvcAdvance({id \in ReqIds : reqFile[id] # NoFile})
          ELSE SvcReturn
    /\ hist' = [hist EXCEPT !.rpc_drains = IF hist.timed_out THEN 1 ELSE @]
    /\ UNCHANGED <<reqFile, respFile, caller, handler_calls, resp_writes,
                   delete_fails>>
    /\ SvcFrame

\* raw = _sandbox_read_bytes(sandbox, request_path): not guarded.
SvcRead ==
    /\ pc = "svc" /\ svc.pc = "read"
    /\ \E readOk \in BOOLEAN :
          IF readOk /\ reqFile[svc.cur] # NoFile
          THEN /\ svc' = [svc EXCEPT !.pc = "delete", !.raw = reqFile[svc.cur]]
               /\ UNCHANGED ctlVars
          ELSE SvcRaise("request_read")
    /\ UNCHANGED <<reqFile, respFile, caller, handler_calls, resp_writes,
                   delete_fails, hist>>
    /\ SvcFrame

\* After the delete: json.loads(raw); an empty file is a JSONDecodeError, and
\* the loop continues with the next entry.
SvcParse ==
    IF svc.raw = EmptyFile
    THEN SvcAdvance(svc.entries)
    ELSE svc' = [svc EXCEPT !.pc = "handle"] /\ UNCHANGED ctlVars

\* _sandbox_delete(sandbox, request_path): a failing remove is suppressed and
\* leaves the file where it is.
SvcDelete ==
    /\ pc = "svc" /\ svc.pc = "delete"
    /\ \/ /\ reqFile' = [reqFile EXCEPT ![svc.cur] = NoFile]
          /\ UNCHANGED delete_fails
       \/ /\ delete_fails < MaxDeleteFails
          /\ delete_fails' = delete_fails + 1
          /\ UNCHANGED reqFile
    /\ SvcParse
    /\ UNCHANGED <<respFile, caller, handler_calls, resp_writes, hist>>
    /\ SvcFrame

\* handler = host_actions.get(action); result = handler(payload) or the
\* unsupported-action result; except Exception: the error result.
SvcHandle ==
    /\ pc = "svc" /\ svc.pc = "handle"
    /\ svc' = [svc EXCEPT !.pc = "write", !.result = HandlerResult(svc.raw)]
    /\ UNCHANGED ctlVars
    /\ handler_calls' =
          IF ActionOf(svc.raw) \in host_actions
          THEN [handler_calls EXCEPT ![svc.cur] = @ + 1]
          ELSE handler_calls
    /\ hist' = [hist EXCEPT !.handler_raised =
                   IF HandlerRaises(svc.raw) /\ ActionOf(svc.raw) \in host_actions
                   THEN @ \cup {svc.cur} ELSE @,
                             !.unsupported =
                   IF ActionOf(svc.raw) \notin host_actions
                   THEN @ \cup {svc.cur} ELSE @]
    /\ UNCHANGED <<reqFile, respFile, caller, resp_writes, delete_fails>>
    /\ SvcFrame

\* _sandbox_write_text(sandbox, response_path, json.dumps(result)): not guarded.
SvcWrite ==
    /\ pc = "svc" /\ svc.pc = "write"
    /\ \E writeOk \in BOOLEAN :
          IF writeOk
          THEN /\ respFile' = [respFile EXCEPT ![svc.cur] = svc.result]
               /\ resp_writes' = [resp_writes EXCEPT ![svc.cur] = @ + 1]
               /\ SvcAdvance(svc.entries)
          ELSE /\ SvcRaise("response_write")
               /\ UNCHANGED <<respFile, resp_writes>>
    /\ UNCHANGED <<reqFile, caller, handler_calls, delete_fails, hist>>
    /\ SvcFrame

\* --------------------------------------------- call_host inside the sandbox
\* What a step of the sandbox-side client leaves alone.
CallFrame ==
    UNCHANGED <<svc, handler_calls, resp_writes, delete_fails, logVars, runVars>>

\* open(request_path, "w"): the file exists, empty, until the with block ends.
CallOpen(id) ==
    /\ proc = "running" /\ sandbox = "alive"
    /\ caller[id] = "idle"
    /\ caller' = [caller EXCEPT ![id] = "opened"]
    /\ reqFile' = [reqFile EXCEPT ![id] = EmptyFile]
    /\ UNCHANGED respFile
    /\ CallFrame

\* json.dump and the close: the request reaches the file, unless the host has
\* removed the (empty) file meanwhile: the text then goes to the unlinked file.
CallWrite(id) ==
    /\ proc = "running" /\ sandbox = "alive"
    /\ caller[id] = "opened"
    /\ caller' = [caller EXCEPT ![id] = "waiting"]
    /\ \E call \in Call :
          reqFile' = [reqFile EXCEPT ![id] = IF @ = NoFile THEN NoFile ELSE call]
    /\ UNCHANGED respFile
    /\ CallFrame

\* while not os.path.exists(response_path): ...; json.load(handle)
CallRead(id) ==
    /\ proc = "running" /\ sandbox = "alive"
    /\ caller[id] = "waiting"
    /\ respFile[id] # None
    /\ caller' = [caller EXCEPT ![id] = "read"]
    /\ UNCHANGED <<reqFile, respFile>>
    /\ CallFrame

\* time.sleep(0.1); if time.time() - start > timeout: raise TimeoutError
CallTimeout(id) ==
    /\ proc = "running" /\ sandbox = "alive"
    /\ caller[id] = "waiting"
    /\ caller' = [caller EXCEPT ![id] = "timeout"]
    /\ UNCHANGED <<reqFile, respFile>>
    /\ CallFrame

\* os.remove(response_path), FileNotFoundError ignored; return data
CallRemove(id) ==
    /\ proc = "running" /\ sandbox = "alive"
    /\ caller[id] = "read"
    /\ caller' = [caller EXCEPT ![id] = "done"]
    /\ respFile' = [respFile EXCEPT ![id] = None]
    /\ UNCHANGED reqFile
    /\ CallFrame

InitRpcVars ==
    /\ reqFile = [id \in ReqIds |-> NoFile]
    /\ respFile = [id \in ReqIds |-> None]
    /\ caller = [id \in ReqIds |-> "idle"]
    /\ svc = SvcStart
    /\ handler_calls = [id \in ReqIds |-> 0]
    /\ resp_writes = [id \in ReqIds |-> 0]
    /\ delete_fails = 0


\* ============================================ collection and persistence
\* Sandbox paths are sequences of characters; every name has one character,
\* except the file "qq", whose name begins with the request directory's name.
E2B_IO_DIR == <<"/", "i">>
E2B_ARTIFACT_DIR == E2B_IO_DIR \o <<"/", "a">>
E2B_REQUEST_DIR == E2B_IO_DIR \o <<"/", "q">>
E2B_RESPONSE_DIR == E2B_IO_DIR \o <<"/", "p">>

\* The directories of the sandbox and the files it can hold: an artifact, the
\* config file, a pending request file, and the file "/i/qq".
Dirs == {E2B_IO_DIR, E2B_ARTIFACT_DIR, E2B_REQUEST_DIR, E2B_RESPONSE_DIR}
ArtifactFile == E2B_ARTIFACT_DIR \o <<"/", "o">>
ConfigFile == E2B_IO_DIR \o <<"/", "c">>
RequestFile == E2B_REQUEST_DIR \o <<"/", "r">>
NearFile == E2B_IO_DIR \o <<"/", "q", "q">>
AllFiles == {ArtifactFile, ConfigFile, RequestFile, NearFile}

\* roots = [E2B_ARTIFACT_DIR, E2B_IO_DIR]
Roots == <<E2B_ARTIFACT_DIR, E2B_IO_DIR>>

\* str.startswith
startswith(path, prefix) ==
    Len(path) >= Len(prefix) /\ SubSeq(path, 1, Len(prefix)) = prefix

\* The directory an entry is listed in: the path up to its last "/".
LastSlash(path) ==
    CHOOSE i \in 1..Len(path) :
        path[i] = "/" /\ \A j \in (i + 1)..Len(path) : path[j] # "/"
Parent(path) == SubSeq(path, 1, LastSlash(path) - 1)

\* What sandbox.files.list(dir) holds, as a set: the entries directly in dir.
Children(dir, fs) == {e \in fs \cup Dirs : Parent(e) = dir}

\* The orders a listing can return a set of entries in.
Orders(S) ==
    {q \in [1..Cardinality(S) -> S] : \A i, j \in 1..Cardinality(S) :
        i # j => q[i] # q[j]}

\* Python's order on str, by code point, on the model's characters.
Rank(c) ==
    CASE c = "/" -> 47 [] c = "a" -> 97 [] c = "c" -> 99 [] c = "i" -> 105
      [] c = "o" -> 111 [] c = "p" -> 112 [] c = "q" -> 113 [] c = "r" -> 114

RECURSIVE StrLess(_, _)
StrLess(a, b) ==
    IF b = <<>> THEN FALSE
    ELSE IF a = <<>> THEN TRUE
    ELSE IF Head(a) # Head(b) THEN Rank(Head(a)) < Rank(Head(b))
    ELSE StrLess(Tail(a), Tail(b))

\* sorted(files.values(), key=lambda item: item.path), files keyed by path.
RECURSIVE sorted(_)
sorted(infos) ==
    IF infos = {} THEN <<>>
    ELSE LET m == CHOOSE x \in infos :
                     \A y \in infos \ {x} : StrLess(x.path, y.path)
         IN <<m>> \o sorted(infos \ {m})

\* path.lstrip("/")
RECURSIVE lstrip(_)
lstrip(path) ==
    IF path # <<>> /\ Head(path) = "/" THEN lstrip(Tail(path)) ELSE path

\* "\n".join(logs)
RECURSIVE join(_)
join(lines) ==
    IF lines = <<>> THEN <<>>
    ELSE IF Len(lines) = 1 THEN lines[1]
    ELSE lines[1] \o <<NL>> \o join(Tail(lines))

\* The pass before _collect_file_info is called.
ColStart ==
    [ pc |-> "idle",         \* the statement the pass is at
      fs |-> {},             \* the files in the sandbox
      roots |-> <<>>,        \* the roots not listed yet
      queue |-> <<>>,        \* the local queue
      files |-> {},          \* the dict files, as the set of its values
      out |-> <<>>,          \* the list _collect_file_info returned
      persisted |-> <<>>,    \* the list _finalize_persistence builds
      logs_file |-> <<>>,    \* <<content of logs.txt>> once written
      read_failed |-> {},    \* paths whose read failed during collection
      list_failed |-> FALSE, \* a listing failed
      visits |-> <<>> ]      \* the files read during collection, in order


\* ================================================== two concurrent calls
\* The run ids of two calls of execute_e2b_test that run at the same time.
RunIds == {"r1", "r2"}

\* The locals of one call and the sandbox it created.  A piece of data is
\* tagged with the run whose sandbox produced it.
RunStart ==
    [ at |-> "loop",          \* "loop" | "done"
      log_file |-> <<>>,      \* E2B_LOG_FILE of the call's sandbox
      responses |-> {},       \* the response directory of the call's sandbox
      artifacts |-> {},       \* the artifact directory of the call's sandbox
      log_lines |-> <<>>,     \* the call's log_lines
      stdout_lines |-> <<>>,  \* the call's stdout_lines
      sunk |-> <<>>,          \* what the call's log_sink received
      logs |-> <<>>,          \* response.logs of the call's result
      files |-> {},           \* response.files of the call's result
      run_dir |-> {} ]        \* the content of persist_root / run_id

RunsStart == [r \in RunIds |-> RunStart]


\* ==================================================== run_e2b_test_stream
\* The names of the files the dataset resolver can supply.
InputNames == {"a.csv", "b.csv"}

\* The request before its worker starts.
StreamStart ==
    [ wpc |-> "start",       \* the statement the worker is at
      queue |-> <<>>,        \* the asyncio queue: messages not yet taken
      events |-> <<>>,       \* every event enqueued so far, in order
      delivered |-> <<>>,    \* what _event_stream has yielded
      closed |-> FALSE,      \* _event_stream has taken "__EOF__"
      inputs |-> {},         \* sandbox_inputs: what _collect_input_files gave
      staged |-> {},         \* the files in the sandbox's input directory
      launched |-> FALSE ]   \* the entry runner was launched

\* ================================================ call_host in the sandbox
\* time.sleep(0.1) / asyncio.sleep(0.1), in units of 0.05 s.
SleepTicks == 2

\* The budgets (the timeout argument) of the calls, in the same unit.
Timeouts == {0, 1, 3}

\* One invocation of call_host (async_call_host has the same statements, with
\* asyncio.sleep for time.sleep) before its first statement.
SdkStart ==
    [ pc |-> "open",        \* the statement the invocation is at
      now |-> 0,            \* the sandbox's clock
      timeout |-> 0,        \* the timeout argument
      start |-> 0,          \* start = time.time()
      wake |-> 0,           \* the earliest time the current sleep returns
      response |-> FALSE,   \* the response file exists
      appeared |-> -1,      \* when the host wrote the response, -1: not yet
      data |-> None ]       \* what json.load returned

\* ============================================== the threads of one call
\* The thread that called execute_e2b_test and the thread of
\* _wait_for_command.
Threads == {"supervisor", "waiter"}

\* No thread is inside log_sink.
SinkIdle == [t \in Threads |-> FALSE]

\* ======================================================== execute_e2b_test
InitLogVars ==
    /\ logFile = <<>>
    /\ log_lines = <<>>
    /\ stdout_lines = <<>>
    /\ sink = <<>>
    /\ synced = FALSE
    /\ chunks = 0

HistInit ==
    [ install_failed |-> FALSE,   \* the install command ended non-zero
      timed_out |-> FALSE,        \* the loop took its timeout branch
      file_at_cancel |-> <<>>,    \* the log file when the kill was issued
      rpc_drains |-> 0,           \* _service_host_requests calls after that
      log_drains |-> 0,           \* _read_log_updates calls after that
      handler_raised |-> {},      \* ids whose registered handler raised
      unsupported |-> {},         \* ids dispatched with an unregistered action
      manifest |-> FALSE ]        \* the write of requirements.txt was called

\* The state when execute_e2b_test is entered.
InitRun ==
    /\ pc = "create" /\ exc = None
    /\ outcome = "pending" /\ result = <<>>
    /\ sandbox = "none" /\ kill_calls = 0 /\ run_dir = FALSE
    /\ persist \in BOOLEAN
    /\ pip \in {"none", "blank", "pkgs"}
    /\ has_close \in BOOLEAN
    /\ col = ColStart /\ runs = RunsStart /\ stream = StreamStart
    /\ sdk = SdkStart /\ in_sink = SinkIdle
    /\ proc = "off" /\ wpc = "off"
    /\ exit_error = None /\ exit_code = None
    /\ wait_complete = FALSE /\ expired = FALSE
    /\ hist = HistInit

\* getattr(sandbox, "sandbox_id", "unknown"): the sandbox's id, or the default.
SandboxIds == {"sbx", "unknown"}

\* An exception leaves the try block: the finally clause runs next.
Raise(cause) == pc' = "finally" /\ exc' = cause

\* Create with the run directory made before the sandbox is created.
CreateAfterRunDir ==
    /\ pc = "create"
    /\ run_dir' = persist
    /\ \E ok \in BOOLEAN :
          IF ok
          THEN /\ sandbox' = "alive" /\ pc' = "mkdir"
               /\ UNCHANGED <<exc, outcome>>
          ELSE /\ exc' = "create" /\ outcome' = "raised" /\ pc' = "done"
               /\ UNCHANGED sandbox
    /\ UNCHANGED <<result, kill_calls, cfgVars, cmdVars, hist, logVars, rpcVars>>

\* sandbox = _create_sandbox(payload.allow_internet)
Create ==
    /\ pc = "create"
    /\ \E ok \in BOOLEAN :
          IF ok
          THEN /\ sandbox' = "alive" /\ pc' = "mkdir"
               /\ UNCHANGED <<exc, outcome>>
          ELSE /\ exc' = "create" /\ outcome' = "raised" /\ pc' = "done"
               /\ UNCHANGED sandbox
    /\ UNCHANGED <<result, kill_calls, run_dir, cfgVars, cmdVars, hist,
                   logVars, rpcVars>>

\* if run_id and persist_root: run_dir.mkdir(...), before the try statement.
Mkdir ==
    /\ pc = "mkdir"
    /\ IF persist
       THEN \E ok \in BOOLEAN :
               IF ok
               THEN /\ run_dir' = TRUE /\ pc' = "seed"
                    /\ UNCHANGED <<exc, outcome>>
               ELSE /\ exc' = "mkdir" /\ outcome' = "raised" /\ pc' = "done"
                    /\ UNCHANGED run_dir
       ELSE pc' = "seed" /\ UNCHANGED <<exc, outcome, run_dir>>
    /\ UNCHANGED <<result, sandbox, kill_calls, cfgVars, cmdVars, hist,
                   logVars, rpcVars>>

\* Lines 450-473: the directories (failures suppressed), the six bundle and
\* config writes (not guarded), the removal of a stale log (suppressed).
Seed ==
    /\ pc = "seed"
    /\ \E ok \in BOOLEAN :
          IF ok THEN pc' = "install" /\ UNCHANGED exc ELSE Raise("seed")
    /\ UNCHANGED <<endVars, sbxVars, cfgVars, cmdVars, hist, logVars, rpcVars>>

\* Install without the test of requirements_content: a list of blank names
\* is installed like a list of packages.
InstallWritesBlankManifest ==
    /\ pc = "install"
    /\ IF pip # "none"
       THEN /\ \E ok \in BOOLEAN :
                  IF ok THEN pc' = "pip" /\ UNCHANGED exc
                  ELSE Raise("requirements_write")
            /\ hist' = [hist EXCEPT !.manifest = TRUE]
       ELSE pc' = "launch" /\ UNCHANGED <<exc, hist>>
    /\ UNCHANGED <<endVars, sbxVars, cfgVars, cmdVars, logVars, rpcVars>>

\* Lines 499-506: if payload.pip_packages: ... if requirements_content: the
\* manifest is written (not guarded) and the install command follows; with no
\* package, or blank names only, the launch of line 548 follows.
Install ==
    /\ pc = "install"
    /\ IF pip = "pkgs"
       THEN /\ \E ok \in BOOLEAN :
                  IF ok THEN pc' = "pip" /\ UNCHANGED exc
                  ELSE Raise("requirements_write")
            /\ hist' = [hist EXCEPT !.manifest = TRUE]
       ELSE pc' = "launch" /\ UNCHANGED <<exc, hist>>
    /\ UNCHANGED <<endVars, sbxVars, cfgVars, cmdVars, logVars, rpcVars>>

\* on_stdout / on_stderr of the install command.
PipOutput ==
    /\ pc = "pip"
    /\ chunks < MaxChunks
    /\ chunks' = chunks + 1
    /\ \E chunk \in Chunk : capture_stream(chunk)
    /\ UNCHANGED <<logFile, log_lines, synced, runVars, rpcVars>>

\* How sandbox.commands.run("pip install ...") ends.
PipEnd == {"exit0", "nonzero", "CommandExitException", "other_exception"}

\* PipDone without the return of lines 521-546: a failed install goes on to
\* the launch.
PipDoneFallsThrough ==
    /\ pc = "pip"
    /\ \E end \in PipEnd :
          CASE end = "exit0" ->
                 pc' = "launch" /\ UNCHANGED <<exc, exit_error, hist>>
            [] end \in {"nonzero", "CommandExitException"} ->
                 /\ \E e \in {"pip_error", "pip_exit_code"} : exit_error' = e
                 /\ hist' = [hist EXCEPT !.install_failed = TRUE]
                 /\ pc' = "launch" /\ UNCHANGED exc
            [] OTHER -> Raise("pip") /\ UNCHANGED <<exit_error, hist>>
    /\ UNCHANGED <<endVars, sbxVars, cfgVars, proc, wpc, exit_code,
                   wait_complete, expired, logVars, rpcVars>>

\* Lines 507-521: exit_error is set on a non-zero exit code and on
\* CommandExitException; any other exception leaves the try block.
PipDone ==
    /\ pc = "pip"
    /\ \E end \in PipEnd :
          CASE end = "exit0" ->
                 pc' = "launch" /\ UNCHANGED <<exc, exit_error, hist>>
            [] end \in {"nonzero", "CommandExitException"} ->
                 /\ \E e \in {"pip_error", "pip_exit_code"} : exit_error' = e
                 /\ hist' = [hist EXCEPT !.install_failed = TRUE]
                 /\ pc' = "if_log" /\ UNCHANGED exc
            [] OTHER -> Raise("pip") /\ UNCHANGED <<exit_error, hist>>
    /\ UNCHANGED <<endVars, sbxVars, cfgVars, proc, wpc, exit_code,
                   wait_complete, expired, logVars, rpcVars>>

\* Lines 522-523 on a failed install: _read_log_updates(), _collect_file_info.
InstallFailedDrain ==
    /\ pc = "if_log"
    /\ \E readOk \in BOOLEAN : read_log_updates(readOk)
    /\ pc' = "if_persist"
    /\ UNCHANGED <<exc, endVars, sbxVars, cfgVars, cmdVars, hist, logFile,
                   stdout_lines, synced, chunks, rpcVars>>

\* combined_logs without the lines of stdout_lines.
CombinedLogsDropsStdout == log_lines

\* log_lines + [line for line in stdout_lines if line not in log_lines]
combined_logs ==
    log_lines \o SelectSeq(stdout_lines,
                           LAMBDA l : \A i \in 1..Len(log_lines) : log_lines[i] # l)

\* Lines 524-546: _finalize_persistence (its sandbox read is not guarded), the
\* response with ok=False, the return.
InstallFailedReturn ==
    /\ pc = "if_persist"
    /\ \E ok \in BOOLEAN, id \in SandboxIds :
          IF ok \/ ~run_dir
          THEN /\ result' = <<[ok |-> FALSE, error |-> exit_error,
                               logs |-> combined_logs, sandbox_id |-> id]>>
               /\ pc' = "finally" /\ UNCHANGED exc
          ELSE Raise("persist") /\ UNCHANGED result
    /\ UNCHANGED <<outcome, sbxVars, cfgVars, cmdVars, hist, logVars, rpcVars>>

\* Lines 548-577: the runner is launched in the background, the shared
\* variables are reset, the waiter thread is started.
Launch ==
    /\ pc = "launch"
    /\ \E ok \in BOOLEAN :
          IF ok
          THEN /\ proc' = "running" /\ wpc' = "wait"
               /\ exit_error' = None /\ exit_code' = None
               /\ pc' = "svc" /\ UNCHANGED exc
          ELSE Raise("launch") /\ UNCHANGED <<proc, wpc, exit_error, exit_code>>
    /\ UNCHANGED <<endVars, sbxVars, cfgVars, wait_complete, expired, hist,
                   logVars, rpcVars>>

\* Line 581 (and 594 after the loop): _read_log_updates().
LoopLog ==
    /\ pc = "log"
    /\ \E readOk \in BOOLEAN : read_log_updates(readOk)
    /\ pc' = "check"
    /\ UNCHANGED <<exc, endVars, sbxVars, cfgVars, cmdVars, hist, logFile,
                   stdout_lines, synced, chunks, rpcVars>>

\* LoopCheck with the clock tested before the completion event.
LoopCheckClockFirst ==
    /\ pc = "check"
    /\ pc' = IF expired THEN "set_timeout"
             ELSE IF wait_complete THEN "final_log" ELSE "check_time"
    /\ UNCHANGED <<exc, endVars, sbxVars, cfgVars, cmdVars, hist, logVars,
                   rpcVars>>

\* if wait_complete.wait(timeout=0.0): break
LoopCheck ==
    /\ pc = "check"
    /\ pc' = IF wait_complete THEN "final_log" ELSE "check_time"
    /\ UNCHANGED <<exc, endVars, sbxVars, cfgVars, cmdVars, hist, logVars,
                   rpcVars>>

\* if time.time() - start_time > timeout_seconds: ...; else the 0.2 s wait and
\* the next iteration.
LoopCheckTime ==
    /\ pc = "check_time"
    /\ pc' = IF expired THEN "set_timeout" ELSE "svc"
    /\ UNCHANGED <<exc, endVars, sbxVars, cfgVars, cmdVars, hist, logVars,
                   rpcVars>>

\* exit_error = "Sandbox execution timed out"
LoopSetTimeout ==
    /\ pc = "set_timeout"
    /\ exit_error' = "timeout"
    /\ hist' = [hist EXCEPT !.timed_out = TRUE]
    /\ pc' = "kill_cmd"
    /\ UNCHANGED <<exc, endVars, sbxVars, cfgVars, proc, wpc, exit_code,
                   wait_complete, expired, logVars, rpcVars>>

\* with suppress(Exception): command_handle.kill(); break
LoopKill ==
    /\ pc = "kill_cmd"
    /\ \E ok \in BOOLEAN :
          proc' = IF ok /\ proc = "running" THEN "killed" ELSE proc
    /\ hist' = [hist EXCEPT !.file_at_cancel = logFile]
    /\ pc' = "final_log"
    /\ UNCHANGED <<exc, endVars, sbxVars, cfgVars, wpc, exit_error, exit_code,
                   wait_complete, expired, logVars, rpcVars>>

\* Line 594: the read after the loop.
FinalLog ==
    /\ pc = "final_log"
    /\ \E readOk \in BOOLEAN : read_log_updates(readOk)
    /\ hist' = [hist EXCEPT !.log_drains = IF hist.timed_out THEN 1 ELSE @]
    /\ pc' = "final_wait"
    /\ UNCHANGED <<exc, endVars, sbxVars, cfgVars, cmdVars, logFile,
                   stdout_lines, synced, chunks, rpcVars>>

\* FinalWait with waits that have no timeout: the supervisor goes on only once
\* the waiter has set the event.
FinalWaitUnbounded ==
    /\ pc = "final_wait"
    /\ wait_complete
    /\ pc' = "merge"
    /\ UNCHANGED <<exc, endVars, sbxVars, cfgVars, cmdVars, hist, logVars,
                   rpcVars>>

\* wait_complete.wait(timeout=5.0); wait_thread.join(timeout=5.0): both return
\* after at most their timeout, whether or not the waiter is done.
FinalWait ==
    /\ pc = "final_wait"
    /\ pc' = "merge"
    /\ UNCHANGED <<exc, endVars, sbxVars, cfgVars, cmdVars, hist, logVars,
                   rpcVars>>

\* Lines 598-603: stdout lines not yet seen are appended to log_lines.
RECURSIVE MergeStdout(_, _)
MergeStdout(lines, out) ==
    IF out = <<>> THEN lines
    ELSE IF \E i \in 1..Len(lines) : lines[i] = Head(out)
         THEN MergeStdout(lines, Tail(out))
         ELSE MergeStdout(Append(lines, Head(out)), Tail(out))

Merge ==
    /\ pc = "merge"
    /\ log_lines' = MergeStdout(log_lines, stdout_lines)
    /\ pc' = "collect"
    /\ UNCHANGED <<exc, endVars, sbxVars, cfgVars, cmdVars, hist, logFile,
                   stdout_lines, sink, synced, chunks, rpcVars>>

\* Lines 605-610: _collect_file_info (every sandbox call in it is guarded),
\* then the exit-code fallback for exit_error.
Collect ==
    /\ pc = "collect"
    /\ exit_error' = IF exit_error = None /\ exit_code \notin {None, "0"}
                     THEN "exit_code_msg" ELSE exit_error
    /\ pc' = "persist"
    /\ UNCHANGED <<exc, endVars, sbxVars, cfgVars, proc, wpc, exit_code,
                   wait_complete, expired, hist, logVars, rpcVars>>

\* Respond with ok not taken from exit_error.
RespondAlwaysOk ==
    /\ pc = "persist"
    /\ \E ok \in BOOLEAN, id \in SandboxIds :
          IF ok \/ ~run_dir
          THEN /\ result' = <<[ok |-> TRUE, error |-> exit_error,
                               logs |-> log_lines, sandbox_id |-> id]>>
               /\ pc' = "finally" /\ UNCHANGED exc
          ELSE Raise("persist") /\ UNCHANGED result
    /\ UNCHANGED <<outcome, sbxVars, cfgVars, cmdVars, hist, logVars, rpcVars>>

\* Lines 612-632: _finalize_persistence (its sandbox read is not guarded), the
\* response, the return.
Respond ==
    /\ pc = "persist"
    /\ \E ok \in BOOLEAN, id \in SandboxIds :
          IF ok \/ ~run_dir
          THEN /\ result' = <<[ok |-> exit_error = None, error |-> exit_error,
                               logs |-> log_lines, sandbox_id |-> id]>>
               /\ pc' = "finally" /\ UNCHANGED exc
          ELSE Raise("persist") /\ UNCHANGED result
    /\ UNCHANGED <<outcome, sbxVars, cfgVars, cmdVars, hist, logVars, rpcVars>>

\* finally: if hasattr(sandbox, "close"): with suppress(Exception): sandbox.kill()
\* A sandbox that is killed takes the runner with it.
Finally ==
    /\ pc = "finally"
    /\ IF has_close
       THEN /\ kill_calls' = kill_calls + 1
            /\ \E ok \in BOOLEAN :
                  /\ sandbox' = IF ok THEN "killed" ELSE sandbox
                  /\ proc' = IF ok /\ proc = "running" THEN "killed" ELSE proc
       ELSE UNCHANGED <<kill_calls, sandbox, proc>>
    /\ outcome' = IF exc = None THEN "returned" ELSE "raised"
    /\ pc' = "done"
    /\ UNCHANGED <<exc, result, run_dir, cfgVars, wpc, exit_error, exit_code,
                   wait_complete, expired, hist, logVars, rpcVars>>

\* ------------------------------------------- the waiter: _wait_for_command
\* on_stdout / on_stderr of command_handle.wait.
WaitOutput ==
    /\ wpc = "wait"
    /\ chunks < MaxChunks
    /\ chunks' = chunks + 1
    /\ \E chunk \in Chunk : capture_stream(chunk)
    /\ UNCHANGED <<logFile, log_lines, synced, runVars, rpcVars>>

\* command_handle.wait returns a result or raises CommandExitException once the
\* command has ended; exit_code is assigned and "exit_error is None" is read.
WaitReturn ==
    /\ wpc = "wait"
    /\ proc \in {"exit0", "exit1", "killed"}
    /\ exit_code' = IF proc = "exit0" THEN "0" ELSE "1"
    /\ wpc' = IF proc # "exit0" /\ exit_error = None THEN "set" ELSE "fin"
    /\ UNCHANGED <<ctlVars, endVars, sbxVars, cfgVars, proc, exit_error,
                   wait_complete, expired, hist, logVars, rpcVars>>

\* command_handle.wait raises something that is not a CommandExitException
\* (the connection to the sandbox fails): only the finally clause runs.
WaitFails ==
    /\ wpc = "wait"
    /\ wpc' = "fin"
    /\ UNCHANGED <<ctlVars, endVars, sbxVars, cfgVars, proc, exit_error,
                   exit_code, wait_complete, expired, hist, logVars, rpcVars>>

\* exit_error = result.error or f"Sandbox process exited with code ..."
WaitSetError ==
    /\ wpc = "set"
    /\ \E e \in {"cmd_error", "exit_code_msg"} : exit_error' = e
    /\ wpc' = "fin"
    /\ UNCHANGED <<ctlVars, endVars, sbxVars, cfgVars, proc, exit_code,
                   wait_complete, expired, hist, logVars, rpcVars>>

\* finally: wait_complete.set()
WaitFinally ==
    /\ wpc = "fin"
    /\ wait_complete' = TRUE
    /\ wpc' = "done"
    /\ UNCHANGED <<ctlVars, endVars, sbxVars, cfgVars, proc, exit_error,
                   exit_code, expired, hist, logVars, rpcVars>>

\* ------------------------------------------------------- the environment
\* The runner (or the user code in it) appends to the log file.
ProcLog ==
    /\ proc = "running" /\ sandbox = "alive"
    /\ \E c \in Chars : ProcAppend(c)
    /\ UNCHANGED <<log_lines, stdout_lines, sink, chunks, runVars, rpcVars>>

\* The runner ends with exit code 0 or with a non-zero exit code.
ProcExit ==
    /\ proc = "running"
    /\ \E p \in {"exit0", "exit1"} : proc' = p
    /\ UNCHANGED <<ctlVars, endVars, sbxVars, cfgVars, wpc, exit_error,
                   exit_code, wait_complete, expired, hist, logVars, rpcVars>>

\* The wall clock passes start_time + timeout_seconds.
TimePasses ==
    /\ pc \in {"svc", "log", "check", "check_time"} /\ ~expired
    /\ expired' = TRUE
    /\ UNCHANGED <<ctlVars, endVars, sbxVars, cfgVars, proc, wpc, exit_error,
                   exit_code, wait_complete, hist, logVars, rpcVars>>

\* ==================================================================== Spec
\* One call of execute_e2b_test, from its entry to the end of its finally
\* clause, with the waiter thread; the runner prints and ends, no more.
Init == InitRun /\ InitLogVars /\ InitRpcVars

Next ==
    \/ Create \/ Mkdir \/ Seed \/ Install \/ PipOutput \/ PipDone
    \/ InstallFailedDrain \/ InstallFailedReturn \/ Launch
    \/ SvcList \/ LoopLog \/ LoopCheck \/ LoopCheckTime \/ LoopSetTimeout
    \/ LoopKill \/ FinalLog \/ FinalWait \/ Merge \/ Collect \/ Respond
    \/ Finally
    \/ WaitOutput \/ WaitReturn \/ WaitFails \/ WaitSetError \/ WaitFinally
    \/ ProcExit \/ TimePasses

Spec == Init /\ [][Next]_vars

\* ================================================================ SpecLive
\* The steps of the thread that called execute_e2b_test.
Supervisor ==
    \/ Create \/ Mkdir \/ Seed \/ Install \/ PipDone
    \/ InstallFailedDrain \/ InstallFailedReturn \/ Launch
    \/ SvcList \/ LoopLog \/ LoopCheck \/ LoopCheckTime \/ LoopSetTimeout
    \/ LoopKill \/ FinalLog \/ FinalWait \/ Merge \/ Collect \/ Respond
    \/ Finally

\* Spec with its scheduling: the calling thread goes on while it has a step to
\* take (every call it makes returns or raises, every wait of lines 583-596
\* has a timeout), and the clock read at line 586 advances.  Nothing is
\* assumed of the command, of the waiter thread or of the outcome of a kill.
SpecLive ==
    Init /\ [][Next]_vars /\ WF_vars(Supervisor) /\ WF_vars(TimePasses)

\* ============================================================== SpecRunLog
\* The same call with a runner that also appends to the log file.
NextRunLog == Next \/ ProcLog

SpecRunLog == Init /\ [][NextRunLog]_vars

\* The state of a call inside its supervisor loop: the sandbox is seeded, the
\* runner is running, the waiter waits.
InitLoop(at) ==
    /\ pc = at /\ exc = None
    /\ outcome = "pending" /\ result = <<>>
    /\ sandbox = "alive" /\ kill_calls = 0 /\ run_dir = FALSE
    /\ persist = FALSE /\ pip = "none" /\ has_close = TRUE
    /\ col = ColStart /\ runs = RunsStart /\ stream = StreamStart
    /\ sdk = SdkStart /\ in_sink = SinkIdle
    /\ proc = "running" /\ wpc = "wait"
    /\ exit_error = None /\ exit_code = None
    /\ wait_complete = FALSE /\ expired = FALSE
    /\ hist = HistInit

\* ================================================================= SpecLog
\* The tailer alone: the ticks' _read_log_updates and the waiter's
\* _capture_stream against a runner that appends to the log file.
InitLog == InitLoop("log") /\ InitLogVars /\ InitRpcVars

\* One tick's _read_log_updates (line 581); the rest of the tick changes
\* nothing the tailer reads.
LogTick ==
    /\ pc = "log"
    /\ \E readOk \in BOOLEAN :
          /\ read_log_updates(readOk)
          /\ synced' = (readOk \/ synced)
    /\ UNCHANGED <<logFile, stdout_lines, chunks, runVars, rpcVars>>

NextLog == ProcLog \/ LogTick \/ WaitOutput

SpecLog == InitLog /\ [][NextLog]_vars

\* ================================================================= SpecRpc
\* The bridge alone: the ticks' _service_host_requests against call_host
\* invocations in the sandbox.
InitRpc == InitLoop("svc") /\ InitLogVars /\ InitRpcVars

\* The rest of a tick (lines 581-592): the loop goes round, or is left.
RpcTickRest ==
    /\ pc = "log"
    /\ \E next \in {"svc", "final_log"} : pc' = next
    /\ UNCHANGED <<exc, endVars, sbxVars, cfgVars, cmdVars, hist, logVars,
                   rpcVars>>

NextRpc ==
    \/ SvcList \/ SvcRead \/ SvcDelete \/ SvcHandle \/ SvcWrite \/ RpcTickRest
    \/ \E id \in ReqIds : CallOpen(id)
    \/ \E id \in ReqIds : CallWrite(id)
    \/ \E id \in ReqIds : CallRead(id)
    \/ \E id \in ReqIds : CallTimeout(id)
    \/ \E id \in ReqIds : CallRemove(id)

SpecRpc == InitRpc /\ [][NextRpc]_vars

\* =============================================================== SpecStarve
\* The supervisor loop of lines 579-592 with the bridge pass in full, against
\* call_host invocations of a command that does not end.  A handler call
\* (line 354) and a log read (line 477) are calls made by the loop's own
\* thread: SvcHandle and LoopLog are their returns.
NextStarve ==
    \/ SvcList \/ SvcRead \/ SvcDelete \/ SvcHandle \/ SvcWrite
    \/ LoopLog \/ LoopCheck \/ LoopCheckTime \/ LoopSetTimeout \/ LoopKill
    \/ TimePasses
    \/ \E id \in ReqIds : CallOpen(id)
    \/ \E id \in ReqIds : CallWrite(id)
    \/ \E id \in ReqIds : CallRead(id)
    \/ \E id \in ReqIds : CallTimeout(id)
    \/ \E id \in ReqIds : CallRemove(id)

\* The steps of the loop that are local to the host or bounded by a timeout.
LoopLocal ==
    \/ SvcList \/ SvcRead \/ SvcDelete \/ SvcWrite
    \/ LoopCheck \/ LoopCheckTime \/ LoopSetTimeout \/ LoopKill

\* The loop's thread goes on and the clock advances; when a handler call or a
\* log read returns is left open.
SpecStarve ==
    InitRpc /\ [][NextStarve]_vars /\ WF_vars(LoopLocal) /\ WF_vars(TimePasses)

\* ================================================================= SpecSink
\* The tailer and the stdout capture with the call of log_sink as two steps,
\* its entry and its return: _read_log_updates runs in the supervisor's
\* thread, _capture_stream in the waiter's (the callbacks of
\* command_handle.wait, line 562), and _emit takes no lock.
SinkFrame ==
    UNCHANGED <<rpcVars, ctlVars, endVars, sbxVars, persist, pip, has_close,
                col, runs, stream, sdk, cmdVars, hist>>

\* Line 581: _read_log_updates() up to its call of log_sink (line 447).
SinkTailCall ==
    /\ pc = "log" /\ ~in_sink["supervisor"]
    /\ \E readOk \in BOOLEAN : read_log_updates(readOk)
    /\ in_sink' = [in_sink EXCEPT !["supervisor"] = (sink' # sink)]
    /\ UNCHANGED <<logFile, stdout_lines, synced, chunks>>
    /\ SinkFrame

\* _capture_stream(chunk) in the waiter's thread up to its call of log_sink.
SinkCaptureCall ==
    /\ wpc = "wait" /\ ~in_sink["waiter"]
    /\ chunks < MaxChunks
    /\ chunks' = chunks + 1
    /\ \E chunk \in Chunk : capture_stream(chunk)
    /\ in_sink' = [in_sink EXCEPT !["waiter"] = (sink' # sink)]
    /\ UNCHANGED <<logFile, log_lines, synced>>
    /\ SinkFrame

\* log_sink(lines) returns to the thread that called it.
SinkReturn(t) ==
    /\ in_sink[t]
    /\ in_sink' = [in_sink EXCEPT ![t] = FALSE]
    /\ UNCHANGED logVars
    /\ SinkFrame

NextSink ==
    \/ SinkTailCall \/ SinkCaptureCall \/ ProcLog
    \/ \E t \in Threads : SinkReturn(t)

SpecSink == InitLog /\ [][NextSink]_vars

\* ================================================================= SpecCall
\* One call_host invocation in the sandbox, with the sandbox's clock, against
\* a host that writes the response at some time or never.  The response file
\* holds its content from the moment it exists.
InitCall == InitLoop("svc") /\ InitLogVars /\ InitRpcVars

SdkFrame ==
    UNCHANGED <<logVars, rpcVars, ctlVars, endVars, sbxVars, persist, pip,
                has_close, col, runs, stream, in_sink, cmdVars, hist>>

\* Time passes in the sandbox.
SdkClock ==
    /\ sdk.pc \notin {"open", "returned", "timeout"}
    /\ sdk.now < MaxClock
    /\ sdk' = [sdk EXCEPT !.now = @ + 1]
    /\ SdkFrame

\* Lines 183-191: the invocation with its timeout argument; the request file
\* is written; start = time.time()
SdkRequest ==
    /\ sdk.pc = "open"
    /\ \E t \in Timeouts :
          sdk' = [sdk EXCEPT !.pc = "poll", !.timeout = t, !.start = sdk.now]
    /\ SdkFrame

\* The host's pass writes the response file (executor line 361).
SdkHostAnswers ==
    /\ sdk.pc \notin {"open", "returned", "timeout"}
    /\ sdk.appeared = -1
    /\ sdk' = [sdk EXCEPT !.response = TRUE, !.appeared = sdk.now]
    /\ SdkFrame

\* Line 192: while not os.path.exists(response_path); line 193: the sleep
\* starts.
SdkPoll ==
    /\ sdk.pc = "poll"
    /\ sdk' = IF sdk.response
              THEN [sdk EXCEPT !.pc = "load"]
              ELSE [sdk EXCEPT !.pc = "sleep", !.wake = sdk.now + SleepTicks]
    /\ SdkFrame

\* Line 193: time.sleep(0.1) returns, no earlier than 0.1 s after it began.
SdkWake ==
    /\ sdk.pc = "sleep"
    /\ sdk.now >= sdk.wake \/ sdk.now = MaxClock
    /\ sdk' = [sdk EXCEPT !.pc = "check"]
    /\ SdkFrame

\* SdkCheck without the raise of line 195.
SdkCheckNeverRaises ==
    /\ sdk.pc = "check"
    /\ sdk' = [sdk EXCEPT !.pc = "poll"]
    /\ SdkFrame

\* Lines 194-195: if time.time() - start > timeout: raise TimeoutError
SdkCheck ==
    /\ sdk.pc = "check"
    /\ sdk' = IF sdk.now - sdk.start > sdk.timeout
              THEN [sdk EXCEPT !.pc = "timeout"]
              ELSE [sdk EXCEPT !.pc = "poll"]
    /\ SdkFrame

\* Lines 197-198: data = json.load(handle)
SdkLoad ==
    /\ sdk.pc = "load"
    /\ sdk' = [sdk EXCEPT !.pc = "remove", !.data = "response"]
    /\ SdkFrame

\* Lines 200-205: os.remove(response_path); return data
SdkRemove ==
    /\ sdk.pc = "remove"
    /\ sdk' = [sdk EXCEPT !.pc = "returned", !.response = FALSE]
    /\ SdkFrame

\* A step of the invocation itself.
SdkStep ==
    SdkRequest \/ SdkPoll \/ SdkWake \/ SdkCheck \/ SdkLoad \/ SdkRemove

NextCall ==
    \/ SdkClock \/ SdkRequest \/ SdkHostAnswers \/ SdkPoll \/ SdkWake
    \/ SdkCheck \/ SdkLoad \/ SdkRemove

\* The user code's thread goes on and the sandbox's clock advances; nothing
\* is assumed of the host.
SpecCall ==
    InitCall /\ [][NextCall]_vars /\ WF_vars(SdkStep) /\ WF_vars(SdkClock)

\* ============================================================= SpecCollect
\* _collect_file_info(sandbox, [E2B_ARTIFACT_DIR, E2B_IO_DIR]) followed by
\* _finalize_persistence, on a sandbox holding any of the files of AllFiles.
LogChoices == {<<>>, <<<<"x">>>>, <<<<"x">>, <<"x", "x">>>>}

InitCollect ==
    /\ pc = "collect" /\ exc = None
    /\ outcome = "pending" /\ result = <<>>
    /\ sandbox = "alive" /\ kill_calls = 0 /\ run_dir = TRUE
    /\ persist = TRUE /\ pip = "none" /\ has_close = TRUE
    /\ \E fs \in SUBSET AllFiles :
          col = [ColStart EXCEPT !.pc = "root", !.fs = fs, !.roots = Roots]
    /\ runs = RunsStart /\ stream = StreamStart /\ sdk = SdkStart
    /\ in_sink = SinkIdle
    /\ proc = "exit0" /\ wpc = "done"
    /\ exit_error = None /\ exit_code = "0"
    /\ wait_complete = TRUE /\ expired = FALSE
    /\ hist = HistInit
    /\ logFile = <<>> /\ log_lines \in LogChoices /\ stdout_lines = <<>>
    /\ sink = <<>> /\ synced = FALSE /\ chunks = 0
    /\ InitRpcVars

\* What a step of the pass leaves alone.
ColFrame ==
    UNCHANGED <<logVars, rpcVars, ctlVars, endVars, sbxVars, persist, pip,
                has_close, runs, stream, sdk, in_sink, cmdVars, hist>>

\* for root in roots: entries = sandbox.files.list(root); except: continue
ColListRoot ==
    /\ col.pc = "root" /\ col.roots # <<>>
    /\ \E ok \in BOOLEAN :
          IF ok
          THEN \E q \in Orders(Children(Head(col.roots), col.fs)) :
                  col' = [col EXCEPT !.roots = Tail(@), !.queue = q,
                                     !.pc = "pop"]
          ELSE col' = [col EXCEPT !.roots = Tail(@), !.list_failed = TRUE]
    /\ ColFrame

\* while queue: the queue is empty, the next root follows.
ColQueueEmpty ==
    /\ col.pc = "pop" /\ col.queue = <<>>
    /\ col' = [col EXCEPT !.pc = "root"]
    /\ ColFrame

\* current = queue.pop()
Current == col.queue[Len(col.queue)]
Popped == SubSeq(col.queue, 1, Len(col.queue) - 1)

\* if path.startswith(E2B_REQUEST_DIR) or path.startswith(E2B_RESPONSE_DIR)
Skipped(path) ==
    startswith(path, E2B_REQUEST_DIR) \/ startswith(path, E2B_RESPONSE_DIR)

ColSkip ==
    /\ col.pc = "pop" /\ col.queue # <<>>
    /\ Skipped(Current)
    /\ col' = [col EXCEPT !.queue = Popped]
    /\ ColFrame

\* if entry_type == FileType.DIR: children = sandbox.files.list(path), [] when
\* the listing fails; queue.extend(children)
ColDir ==
    /\ col.pc = "pop" /\ col.queue # <<>>
    /\ ~Skipped(Current) /\ Current \in Dirs
    /\ \E ok \in BOOLEAN :
          IF ok
          THEN \E q \in Orders(Children(Current, col.fs)) :
                  col' = [col EXCEPT !.queue = Popped \o q]
          ELSE col' = [col EXCEPT !.queue = Popped, !.list_failed = TRUE]
    /\ ColFrame

\* content = _sandbox_read_bytes(...), b"" when the read fails; the preview is
\* taken from the content; files[path] = E2BFileInfo(...)
ColFile ==
    /\ col.pc = "pop" /\ col.queue # <<>>
    /\ ~Skipped(Current) /\ Current \notin Dirs
    /\ \E readOk \in BOOLEAN :
          col' = [col EXCEPT
                    !.queue = Popped,
                    !.files = {f \in @ : f.path # Current} \cup
                              {[path |-> Current,
                                preview |-> IF readOk THEN "text" ELSE None]},
                    !.read_failed = IF readOk THEN @ \ {Current}
                                    ELSE @ \cup {Current},
                    !.visits = Append(@, Current)]
    /\ ColFrame

\* A return of the values in an order that is not sorted.
ColReturnUnsorted ==
    /\ col.pc = "root" /\ col.roots = <<>>
    /\ \E q \in Orders(col.files) : col' = [col EXCEPT !.out = q, !.pc = "persist"]
    /\ ColFrame

\* return sorted(files.values(), key=lambda item: item.path)
ColReturn ==
    /\ col.pc = "root" /\ col.roots = <<>>
    /\ col' = [col EXCEPT !.out = sorted(col.files), !.pc = "persist"]
    /\ ColFrame

\* _finalize_persistence, one file_info of the loop: the read of line 651 is
\* not guarded, so a failing read raises out of the function.
PersistFile ==
    /\ col.pc = "persist" /\ Len(col.persisted) < Len(col.out)
    /\ LET info == col.out[Len(col.persisted) + 1] IN
       \E readOk \in BOOLEAN :
          IF readOk
          THEN col' = [col EXCEPT !.persisted =
                          Append(@, [sandbox_path |-> info.path,
                                     local_path |-> <<"R", "/">> \o
                                                    lstrip(info.path)])]
          ELSE col' = [col EXCEPT !.pc = "raised"]
    /\ ColFrame

\* logs_path.write_text("\n".join(logs)); return persisted, logs_path
PersistLogs ==
    /\ col.pc = "persist" /\ Len(col.persisted) = Len(col.out)
    /\ col' = [col EXCEPT !.logs_file = <<join(log_lines)>>, !.pc = "done"]
    /\ ColFrame

NextCollect ==
    \/ ColListRoot \/ ColQueueEmpty \/ ColSkip \/ ColDir \/ ColFile
    \/ ColReturn \/ PersistFile \/ PersistLogs

SpecCollect == InitCollect /\ [][NextCollect]_vars

\* ============================================================= SpecTwoRuns
\* Two calls of execute_e2b_test with distinct run ids, each in its supervisor
\* loop on the sandbox it created, their steps interleaved.
InitTwoRuns == InitLoop("svc") /\ InitLogVars /\ InitRpcVars

TwoFrame ==
    UNCHANGED <<logVars, rpcVars, ctlVars, endVars, sbxVars, persist, pip,
                has_close, col, stream, sdk, in_sink, cmdVars, hist>>

\* The runner in the sandbox of call r appends a line to its log file.
TwoRunnerLog(r) ==
    /\ runs[r].at = "loop" /\ Len(runs[r].log_file) < MaxRunLines
    /\ runs' = [runs EXCEPT ![r].log_file =
                   Append(@, <<r, "log", Len(@) + 1>>)]
    /\ TwoFrame

\* User code in the sandbox of call r writes an artifact.
TwoRunnerArtifact(r) ==
    /\ runs[r].at = "loop" /\ runs[r].artifacts = {}
    /\ runs' = [runs EXCEPT ![r].artifacts = {<<r, "artifact">>}]
    /\ TwoFrame

\* The waiter of call r passes a stdout line of its command to the call's
\* _capture_stream: the call's stdout_lines and log_sink.
TwoCapture(r) ==
    /\ runs[r].at = "loop" /\ runs[r].stdout_lines = <<>>
    /\ runs' = [runs EXCEPT ![r].stdout_lines = <<<<r, "stdout", 1>>>>,
                            ![r].sunk = Append(@, <<r, "stdout", 1>>)]
    /\ TwoFrame

\* _service_host_requests(sandbox, host_actions) of call r: a request of the
\* call's sandbox is answered by the call's handler table in that sandbox.
TwoService(r) ==
    /\ runs[r].at = "loop" /\ runs[r].responses = {}
    /\ runs' = [runs EXCEPT ![r].responses = {<<r, "pong">>}]
    /\ TwoFrame

\* _read_log_updates of a call, reading the log file of the sandbox of call
\* from into the call's log_lines.
TailFrom(r, from) ==
    /\ runs[r].at = "loop"
    /\ Len(runs[from].log_file) > Len(runs[r].log_lines)
    /\ runs' = [runs EXCEPT
                  ![r].log_lines = runs[from].log_file,
                  ![r].sunk = @ \o SubSeq(runs[from].log_file,
                                          Len(runs[r].log_lines) + 1,
                                          Len(runs[from].log_file))]
    /\ TwoFrame

\* A tailer that reads the sandbox of one fixed call.
TwoTailShared(r) == TailFrom(r, "r1")

\* _read_log_updates of call r reads the sandbox the call created.
TwoTail(r) == TailFrom(r, r)

\* Call r leaves its loop: the stdout merge, the collection from its sandbox,
\* the persistence under persist_root / run_id, the response.
TwoFinish(r) ==
    /\ runs[r].at = "loop"
    /\ LET logs == MergeStdout(runs[r].log_lines, runs[r].stdout_lines) IN
       runs' = [runs EXCEPT ![r].at = "done",
                            ![r].log_lines = logs,
                            ![r].logs = logs,
                            ![r].files = runs[r].artifacts,
                            ![r].run_dir = runs[r].artifacts \cup
                                           {<<r, "logs.txt">>}]
    /\ TwoFrame

NextTwoRuns ==
    \E r \in RunIds :
        \/ TwoRunnerLog(r) \/ TwoRunnerArtifact(r) \/ TwoCapture(r)
        \/ TwoService(r) \/ TwoTail(r) \/ TwoFinish(r)

SpecTwoRuns == InitTwoRuns /\ [][NextTwoRuns]_vars

\* ============================================================== SpecStream
\* One request to run_e2b_test_stream: the worker thread (_worker, with
\* _execute_run and the executor it calls) and the consumer _event_stream.
InitStream == InitLoop("create") /\ InitLogVars /\ InitRpcVars

StreamFrame ==
    UNCHANGED <<logVars, rpcVars, ctlVars, endVars, sbxVars, persist, pip,
                has_close, col, runs, sdk, in_sink, cmdVars, hist>>

\* _enqueue(event) and the final put of "__EOF__": the message joins the queue.
Enqueued(event) ==
    [stream EXCEPT !.queue = Append(@, event), !.events = Append(@, event)]

\* _execute_run up to line 957: the prefix, the version and the inputs are
\* resolved; an HTTPException can leave it; else sandbox_inputs is set.
WorkerResolve ==
    /\ stream.wpc = "start"
    /\ \/ stream' = [stream EXCEPT !.wpc = "http_exc"]
       \/ \E files \in SUBSET InputNames :
             stream' = [stream EXCEPT !.wpc = "call", !.inputs = files]
    /\ StreamFrame

\* Lines 958-965 and the executor up to its launch: the call raises (binding
\* its arguments, creating or seeding the sandbox), or the sandbox is seeded
\* (executor lines 450-473 write the runner, the sdk, the user script and the
\* config, and nothing into E2B_INPUT_DIR) and the runner is launched.
WorkerCall ==
    /\ stream.wpc = "call"
    /\ \/ stream' = [stream EXCEPT !.wpc = "exc"]
       \/ stream' = [stream EXCEPT !.wpc = "running", !.launched = TRUE]
    /\ StreamFrame

\* _log_sink(lines), called by the executor with a non-empty batch.
WorkerLog ==
    /\ stream.wpc = "running"
    /\ Len(SelectSeq(stream.events, LAMBDA e : e = "log")) < MaxLogEvents
    /\ stream' = Enqueued("log")
    /\ StreamFrame

\* execute_e2b_test returns its result, or raises.
WorkerExecuteEnds ==
    /\ stream.wpc = "running"
    /\ \E next \in {"result", "exc"} : stream' = [stream EXCEPT !.wpc = next]
    /\ StreamFrame

\* Line 1808: _enqueue({"type": "result", ...})
WorkerResult ==
    /\ stream.wpc = "result"
    /\ stream' = [Enqueued("result") EXCEPT !.wpc = "finalize"]
    /\ StreamFrame

\* Line 1809: _finalize_run_record(...) returns, or raises (the run directory,
\* the metadata file or the database cannot be written).
WorkerFinalize ==
    /\ stream.wpc = "finalize"
    /\ \E next \in {"finally", "exc"} : stream' = [stream EXCEPT !.wpc = next]
    /\ StreamFrame

\* Lines 1810-1811: except HTTPException: the error event.
WorkerHttpError ==
    /\ stream.wpc = "http_exc"
    /\ stream' = [Enqueued("error") EXCEPT !.wpc = "finally"]
    /\ StreamFrame

\* Lines 1812-1814: except Exception: the error event with status 500.
WorkerError ==
    /\ stream.wpc = "exc"
    /\ stream' = [Enqueued("error") EXCEPT !.wpc = "finally"]
    /\ StreamFrame

\* Lines 1815-1816: finally: the queue gets "__EOF__".
WorkerFinally ==
    /\ stream.wpc = "finally"
    /\ stream' = [Enqueued("__EOF__") EXCEPT !.wpc = "done"]
    /\ StreamFrame

\* _event_stream: item = await queue.get(); "__EOF__" ends the stream, any
\* other item is yielded.
StreamTake ==
    /\ ~stream.closed /\ stream.queue # <<>>
    /\ stream' = [stream EXCEPT
                    !.queue = Tail(@),
                    !.closed = (Head(stream.queue) = "__EOF__"),
                    !.delivered = IF Head(stream.queue) = "__EOF__" THEN @
                                  ELSE Append(@, Head(stream.queue))]
    /\ StreamFrame

NextStream ==
    \/ WorkerResolve \/ WorkerCall \/ WorkerLog \/ WorkerExecuteEnds
    \/ WorkerResult \/ WorkerFinalize \/ WorkerHttpError \/ WorkerError
    \/ WorkerFinally \/ StreamTake

SpecStream == InitStream /\ [][NextStream]_vars

\* ========================================================== SpecStreamLate
\* SpecStream with the executor's waiter thread: a daemon thread that the
\* executor joins for 5 s at most (executor lines 576, 595-596), so it can
\* outlive the call and pass a captured line to _log_sink after
\* execute_e2b_test has returned or raised.
WaiterLateLog ==
    /\ stream.launched
    /\ stream.wpc \notin {"start", "call", "running"}
    /\ Len(SelectSeq(stream.events, LAMBDA e : e = "log")) < MaxLogEvents
    /\ stream' = Enqueued("log")
    /\ StreamFrame

SpecStreamLate == InitStream /\ [][NextStream \/ WaiterLateLog]_vars

\* ================================================================== claims
\* The lines of data that are terminated by a newline (blank ones included).
TerminatedLines(data) ==
    LET d == splitlines(data) IN
    IF data # <<>> /\ data[Len(data)] # NL THEN SubSeq(d, 1, Len(d) - 1) ELSE d

IsPrefix(s, t) == Len(s) <= Len(t) /\ SubSeq(t, 1, Len(s)) = s

Elems(s) == {s[i] : i \in 1..Len(s)}

\* C1 (checked under Spec): whenever a call of execute_e2b_test whose sandbox
\* was created has returned or raised, sandbox.kill() has been called.
C1_KilledOnEveryExit ==
    (outcome # "pending" /\ sandbox # "none") => kill_calls >= 1

\* C2 (Spec): once the sandbox is created the call never raises: no exception
\* of a later step, a failed sandbox file operation included, reaches the caller.
C2_NeverRaisesAfterCreation ==
    sandbox # "none" => (exc = None /\ outcome # "raised")

\* C3 (Spec): after an install that ended non-zero the runner is never launched
\* (no background command, no waiter, nothing written to the log file by a
\* runner), and a result that is returned has ok = false and holds no line
\* other than the installer's output.
C3_InstallFailureNeverLaunches ==
    hist.install_failed =>
        /\ proc = "off" /\ wpc = "off"
        /\ logFile = <<>>
        /\ result # <<>> =>
              /\ result[1].ok = FALSE
              /\ result[1].error \in {"pip_error", "pip_exit_code"}
              /\ Elems(result[1].logs) \subseteq Elems(stdout_lines)

\* C3's case: an install failed and the call returned its result.
C3_Witness ==
    hist.install_failed /\ outcome = "returned" /\ result # <<>>

\* C4 (SpecRunLog): a run that took the timeout branch ends with ok = false and
\* the timeout error, and every line that was in the log file when the kill
\* was issued is in the result's logs.
C4_TimeoutKeepsLogs ==
    (hist.timed_out /\ result # <<>>) =>
        /\ result[1].ok = FALSE
        /\ result[1].error = "timeout"
        /\ Elems(NonEmpty(TerminatedLines(hist.file_at_cancel)))
              \subseteq Elems(result[1].logs)

\* C5 (Spec): after the timeout branch, by the time artifacts are collected the
\* supervisor has made one more log drain and one more RPC drain.
C5_FinalDrainsAfterTimeout ==
    (hist.timed_out /\ pc = "collect") =>
        (hist.log_drains = 1 /\ hist.rpc_drains = 1)

\* C6 (SpecLog): what the sink received, concatenated, is always a prefix of
\* the log file's lines, and is all of them after a tick that read the file.
C6_SinkIsTheLogFile ==
    /\ IsPrefix(Flatten(sink), TerminatedLines(logFile))
    /\ synced => Flatten(sink) = TerminatedLines(logFile)

\* C7 (SpecLog): the tailer counts only newline-terminated lines: a line being
\* written is not among the lines it has seen.
C7_PartialLineNotCounted ==
    IsPrefix(log_lines, NonEmpty(TerminatedLines(logFile)))

\* C8 (SpecRpc): no correlation id has its handler invoked twice, and no id
\* gets more than one response.
C8_DispatchedAtMostOnce ==
    \A id \in ReqIds : handler_calls[id] <= 1 /\ resp_writes[id] <= 1

\* C9 (SpecRpc): for a request with a registered handler at most one response
\* file is written, and once its caller has removed the response, or has timed
\* out, no response file for the id exists.
C9_OneResponseThenNone ==
    \A id \in ReqIds :
        /\ handler_calls[id] >= 1 => resp_writes[id] <= 1
        /\ caller[id] \in {"done", "timeout"} =>
              respFile[id] \notin {"ok", "handler_error"}

\* C10 (SpecRpc): when a registered handler raises, the bridge does not raise
\* it on, the error response is written under the request's id, and the pass
\* goes on.
C10_HandlerErrorAnswered ==
    /\ exc # "handler"
    /\ \A id \in hist.handler_raised :
          /\ respFile[id] \in {None, "handler_error"}
          /\ (svc.pc = "write" /\ svc.cur = id) \/ resp_writes[id] >= 1

\* C11 (SpecRpc): a request whose action has no registered handler is answered:
\* once the host has dispatched it, a response file is written under its id, and
\* the response is the unsupported-action error.
C11_UnsupportedActionAnswered ==
    \A id \in hist.unsupported :
        /\ respFile[id] \in {None, "unsupported"}
        /\ (svc.pc = "write" /\ svc.cur = id) \/ resp_writes[id] >= 1

Terminal ==
    IF hist.timed_out THEN "TIMED_OUT"
    ELSE IF hist.install_failed \/ exit_code = "1" THEN "FAILED"
    ELSE "COMPLETED"

BeforeLaunch ==
    IF hist.install_failed THEN "FAILED"
    ELSE IF pip = "pkgs" THEN "INSTALLING" ELSE "SEEDED"

State ==
    CASE pc \in {"create", "mkdir", "seed"} -> "NEW"
      [] pc = "install" -> "SEEDED"
      [] pc = "pip" -> "INSTALLING"
      [] pc \in {"if_log", "if_persist"} -> "FAILED"
      [] pc = "launch" -> BeforeLaunch
      [] pc \in {"svc", "log", "check", "check_time"} -> "RUNNING"
      [] pc \in {"set_timeout", "kill_cmd"} -> "TIMED_OUT"
      [] pc \in {"final_log", "final_wait", "merge", "collect", "persist"} ->
            Terminal
      [] OTHER ->
            CASE exc \in {None, "persist"} -> Terminal
              [] exc \in {"create", "mkdir", "seed"} -> "NEW"
              [] exc = "requirements_write" -> "SEEDED"
              [] exc = "pip" -> "INSTALLING"
              [] exc = "launch" -> BeforeLaunch
              [] OTHER -> "RUNNING"

\* The order of the supervisor states.
StateOrder ==
    { <<"NEW", "SEEDED">>, <<"SEEDED", "INSTALLING">>, <<"SEEDED", "RUNNING">>,
      <<"INSTALLING", "RUNNING">>, <<"INSTALLING", "FAILED">>,
      <<"RUNNING", "COMPLETED">>, <<"RUNNING", "FAILED">>,
      <<"RUNNING", "TIMED_OUT">> }

\* C13 (Spec): every step of a run keeps the supervisor state or moves it along
\* SEEDED -> (INSTALLING ->) RUNNING -> COMPLETED | FAILED | TIMED_OUT, with
\* INSTALLING -> FAILED for a failed install: RUNNING is never entered after a
\* failed install, no state is entered again, no terminal state is left.
C13_StatesInOrder ==
    [][State' = State \/ <<State, State'>> \in StateOrder]_vars

\* C13's case: a run that went through RUNNING to TIMED_OUT and returned.
C13_Witness ==
    State = "TIMED_OUT" /\ outcome = "returned"

\* The paths of the list _collect_file_info returned.
OutPaths == {col.out[i].path : i \in 1..Len(col.out)}

\* _collect_file_info has returned.
Collected == col.pc \in {"persist", "done", "raised"}

\* A path under directory dir: dir followed by "/" and a name.
Under(path, dir) == startswith(path, dir \o <<"/">>)

\* C14 (SpecCollect): a file whose read failed during collection is not in the
\* list the collector returns, and a failing read does not abort the pass.
C14_UnreadableFileOmitted ==
    /\ Collected => col.read_failed \cap OutPaths = {}
    /\ col.pc # "raised"

\* C18 (SpecCollect): the list _collect_file_info returns is strictly ascending
\* by path (so no path is in it twice), for every order of the listings, also
\* when the nested artifact directory is reached from both roots.
C18_SortedNoDuplicates ==
    Collected =>
        \A i, j \in 1..Len(col.out) :
            i < j => StrLess(col.out[i].path, col.out[j].path)

\* C18's case: the artifact was read twice, once under each root, and the
\* collector returned two or more files.
C18_Witness ==
    /\ col.pc = "done" /\ Len(col.out) >= 2
    /\ Cardinality({i \in 1..Len(col.visits) : col.visits[i] = ArtifactFile}) = 2

\* C19 (SpecCollect): when every listing succeeded, the collector returns
\* exactly the files that are not under the request or the response directory.
C19_ExactlyFilesOutsideBridge ==
    (Collected /\ ~col.list_failed) =>
        OutPaths = {f \in col.fs : ~Under(f, E2B_REQUEST_DIR)
                                    /\ ~Under(f, E2B_RESPONSE_DIR)}

\* C20 (SpecCollect): _finalize_persistence always writes the logs file with
\* the newline-joined log lines, and returns one PersistedFile per collected
\* file, in the collector's order, its local path mirroring the sandbox path
\* under the run directory.
C20_PersistedAndLogsWritten ==
    col.pc \in {"done", "raised"} =>
        /\ col.logs_file = <<join(log_lines)>>
        /\ Len(col.persisted) = Len(col.out)
        /\ \A i \in 1..Len(col.out) :
              /\ col.persisted[i].sandbox_path = col.out[i].path
              /\ col.persisted[i].local_path =
                    <<"R">> \o col.out[i].path

TerminalEvents == {"result", "error"}

C17_InputsStagedBeforeLaunch ==
    stream.launched => stream.staged = stream.inputs

\* C21 (Spec): the result returned after a failed install has ok = false, its
\* error is the installer's error text or the text embedding its exit code,
\* and its logs hold every non-empty line the installer's stdout and stderr
\* callbacks delivered.
C21_InstallFailureKeepsOutput ==
    (hist.install_failed /\ result # <<>>) =>
        /\ result[1].ok = FALSE
        /\ result[1].error \in {"pip_error", "pip_exit_code"}
        /\ Elems(Flatten(sink)) \subseteq Elems(result[1].logs)

\* C21's case: the installer printed a line, failed, and the call returned.
C21_Witness ==
    /\ hist.install_failed /\ outcome = "returned"
    /\ result # <<>> /\ result[1].logs = <<<<"x">>>>
    /\ result[1].error = "pip_exit_code"

\* C22 (Spec): a call whose sandbox creation failed has raised that failure at
\* once and left nothing behind: no sandbox and no operation on one (nothing
\* seeded, no command, no waiter, no bridge pass, no kill), no run directory,
\* no call of the log sink, no result.
C22_CreationFailureLeavesNothing ==
    exc = "create" =>
        /\ outcome = "raised" /\ pc = "done" /\ result = <<>>
        /\ sandbox = "none" /\ kill_calls = 0 /\ ~run_dir
        /\ proc = "off" /\ wpc = "off" /\ svc = SvcStart
        /\ sink = <<>> /\ log_lines = <<>> /\ stdout_lines = <<>>
        /\ hist = HistInit

\* C22's case: the creation failed for a call that was to persist its run.
C22_Witness ==
    exc = "create" /\ outcome = "raised" /\ persist /\ pip = "pkgs"

\* C23 (Spec): in a run whose request lists no package, or blank names only,
\* no step writes the requirements manifest or starts the install command, and
\* the step after the seeding goes to the launch of the entry runner.
C23_NoPackagesSkipsInstall ==
    [][(pip \in {"none", "blank"}) =>
          (/\ ~hist'.manifest /\ ~hist'.install_failed
           /\ pc' \notin {"pip", "if_log", "if_persist"}
           /\ pc = "install" => (pc' = "launch" /\ exc' = None)
           /\ proc' = "off" => (chunks' = 0 /\ stdout_lines' = <<>>))]_vars

\* C23's case: a request with blank names only whose runner was launched.
C23_Witness ==
    pip = "blank" /\ proc = "running" /\ pc = "svc"

\* C24 (SpecLog): no step lowers the count of lines the tailer has seen; a
\* step that changes it is a tailer call that found more lines than that
\* count, took the file's lines and passed the sink exactly the lines beyond
\* the old count; a tailer call that finds no more lines passes nothing; so
\* the sink has received one line per counted position (and per stdout line).
C24_TailerEmitsNewSuffixOnly ==
    [][/\ Len(log_lines') >= Len(log_lines)
       /\ log_lines' # log_lines =>
             /\ Len(log_lines') > Len(log_lines)
             /\ log_lines' = filtered(logFile)
             /\ sink' = Append(sink, SubSeq(log_lines', Len(log_lines) + 1,
                                            Len(log_lines')))
       /\ (log_lines' = log_lines /\ stdout_lines' = stdout_lines) =>
             sink' = sink
       /\ Len(Flatten(sink')) = Len(log_lines') + Len(stdout_lines')]_vars

\* C24's case: two tailer calls each found one new line, and the count is the
\* number of the file's lines.
C24_Witness ==
    /\ Len(log_lines) = 2 /\ sink = <<<<log_lines[1]>>, <<log_lines[2]>>>>
    /\ synced /\ Len(filtered(logFile)) = 2

C26_TimeoutCheckNotStarved ==
    (expired /\ pc \in {"svc", "log", "check", "check_time"})
        ~> (hist.timed_out \/ exc # None)

\* C27 (Spec): a run whose sandbox was created ends with one result; the
\* result is built before sandbox.kill() is called, and once the kill has been
\* called the supervisor has no step left (no drain, collection or
\* persistence follows it).
C27_OneResultBeforeKill ==
    /\ (outcome # "pending" /\ sandbox # "none") => Len(result) = 1
    /\ kill_calls >= 1 =>
          /\ pc = "done" /\ kill_calls = 1
          /\ exc = None => Len(result) = 1

\* C28 (SpecLog): no batch the log sink was called with is empty, whether it
\* came from the tailer or from a stdout/stderr chunk, blank lines included.
C28_SinkNeverGetsEmptyBatch ==
    \A i \in 1..Len(sink) : sink[i] # <<>>

\* C28's case: a chunk without a line was captured and the tailer read a file
\* holding blank lines only; the sink was not called.
C28_Witness ==
    /\ chunks >= 1 /\ stdout_lines = <<>>
    /\ synced /\ logFile # <<>> /\ filtered(logFile) = <<>>
    /\ sink = <<>>

\* C29 as worded (SpecCall): an invocation that raised the timeout error had no
\* response file appear before its budget elapsed, and an invocation that
\* returned returned the response content.
C29_AnsweredInBudgetIsReturned ==
    /\ sdk.pc = "timeout" =>
          ~(sdk.appeared >= 0 /\ sdk.appeared - sdk.start < sdk.timeout)
    /\ sdk.pc = "returned" => sdk.data = "response"

\* C29, amended (SpecCall): every invocation ends, by returning or by raising
\* the timeout error, also when the host never answers; it returns the
\* response content when one of its polls finds the response file, and it
\* raises only after a sleep that ended with the budget exceeded, without
\* having read a response.
C29_CallHostTerminates ==
    /\ <>(sdk.pc \in {"returned", "timeout"})
    /\ [](sdk.pc = "timeout" =>
            /\ sdk.now - sdk.start > sdk.timeout
            /\ sdk.data = None)
    /\ [](sdk.pc = "returned" =>
            /\ sdk.data = "response" /\ sdk.appeared >= 0
            /\ ~sdk.response)

\* C29's case: the host never answered and the invocation raised the timeout
\* error after its budget.
C29_Witness ==
    sdk.pc = "timeout" /\ sdk.appeared = -1 /\ sdk.timeout = 3

\* C30 (Spec): once the waiter has captured exit code 0, with no error set, no
\* step of either thread sets an error (the supervisor's timeout branch
\* included), and a result built from then on has ok = true and no error.
C30_ExitZeroNotOverwritten ==
    [][(exit_code = "0" /\ exit_error = None) =>
          (/\ exit_error' = None
           /\ (result = <<>> /\ result' # <<>>) =>
                 (result'[1].ok = TRUE /\ result'[1].error = None))]_vars

\* C31 (Spec): once the supervisor has taken the timeout branch, the shared
\* error stays the timeout error under every step of the waiter, and a result
\* built from then on carries it.
C31_TimeoutErrorNotReplaced ==
    [][hist.timed_out =>
          (/\ exit_error' = "timeout"
           /\ (result = <<>> /\ result' # <<>>) =>
                 (result'[1].ok = FALSE /\ result'[1].error = "timeout"))]_vars

\* C32 (Spec): a tick that reaches its checks with the completion event set
\* leaves the loop by the break of the first check, whatever the clock says:
\* that step marks no timeout, sets no error and kills no command; and the
\* timeout branch is entered from the clock check only.
C32_CompletionCheckedBeforeClock ==
    [][/\ (pc = "check" /\ wait_complete) =>
             /\ pc' \in {"check", "final_log"}
             /\ hist' = hist /\ exit_error' = exit_error
             /\ proc' = "killed" => proc = "killed"
       /\ pc' = "set_timeout" => pc \in {"check_time", "set_timeout"}
       /\ (pc = "check" /\ pc' = "check_time") => ~wait_complete]_vars

\* C32's case: the budget was exceeded when the tick found the event set; the
\* run left the loop without the timeout branch.
C32_Witness ==
    /\ pc = "final_log" /\ expired /\ wait_complete
    /\ ~hist.timed_out /\ exit_error = None /\ exit_code = "0"

\* C33 (SpecSink): the supervisor's thread and the waiter's thread are never
\* inside log_sink at the same time.
C33_SinkCallsExclusive ==
    ~(in_sink["supervisor"] /\ in_sink["waiter"])

\* C34 (Spec): when the result is built, every line the log sink has been
\* called with so far is in the result's logs, output captured after the
\* supervisor's bounded wait for the waiter included.
C34_SinkLinesAreInLogs ==
    [][(result = <<>> /\ result' # <<>>) =>
          Elems(Flatten(sink)) \subseteq Elems(result'[1].logs)]_vars

C36_InvalidJsonDeletedAndSkipped ==
    [][(pc = "svc" /\ svc.pc = "delete" /\ svc.raw = EmptyFile /\ svc' # svc) =>
          (/\ reqFile'[svc.cur] = NoFile
           /\ handler_calls' = handler_calls
           /\ resp_writes' = resp_writes
           /\ respFile' = respFile
           /\ exc' = exc
           /\ IF svc.entries = {}
              THEN pc' = "log"
              ELSE pc' = "svc" /\ svc'.pc = "read" /\ svc'.cur \in svc.entries)]_vars

====
